---------------------------- MODULE Spec2Model ----------------------------
(***************************************************************************)
(* A model of the label extraction, cleaning, voting and dispatch code of  *)
(* src/models/query_utils.py and of the query wrappers that call it        *)
(* (src/models/ollama_utils.py, src/models/hf_utils.py).                   *)
(*                                                                         *)
(* Every function of query_utils.py is pure, so each one is an operator    *)
(* computed the way the code computes it, and each has an action that      *)
(* applies it to an input drawn from a bounded set by the initial state.   *)
(* A call of random.choice is a nondeterministic choice among the          *)
(* positions of its argument.  A Python exception is recorded in the       *)
(* variable outcome under the name of the exception.                       *)
(***************************************************************************)
EXTENDS Integers, Sequences, FiniteSets, TLC

VARIABLES
    op,          \* the function this run calls
    pc,          \* "call" before the function has run, "done" after
    outcome,     \* "none", "return", or the name of the exception raised
    responses,   \* find_majority_str: the list of items voted on
    voteRet,     \* find_majority_str: the value returned
    dictResponses, \* find_majority_dict: the list of mappings voted on
    dictRet,     \* find_majority_dict: the mapping returned
    goldArg,     \* clean_llm_output_gold: the argument
    goldRet,     \* clean_llm_output_gold: the mapping returned
    goldStage,   \* clean_llm_output_gold: the statement that set parsed_data
    sentArg,     \* clean_llm_output_sentiment: the argument
    sentRet,     \* clean_llm_output_sentiment: the integer returned
    datasetName, \* the dataset name a dispatcher is called with
    textArg,     \* clean_llm_output: the text
    branch,      \* the arm of the dispatcher's if-chain that ran
    ret,         \* what a dispatcher returned
    maxRetries,  \* query_ollama_model: params.get("custom_max_retries")
    attempt,     \* query_ollama_model: the loop variable
    chats,       \* query_ollama_model: the calls of chat made
    sleeps,      \* query_ollama_model: the calls of time.sleep made
    chatLog,     \* query_ollama_model: how each call of chat ended, in order
    response,    \* query_ollama_sc: what query_ollama_model returned
    summaryArg,  \* clean_llm_output_summary: the text
    summaryRet,  \* clean_llm_output_summary: the text returned
    query_config, \* the parameter records of src/config/query_config.py
    params,      \* the record the last call of a session got
    calls,       \* the calls a session has made
    lastCall     \* the function a session called last

voteVars == <<responses, voteRet, dictResponses, dictRet>>

goldVars == <<goldArg, goldRet, goldStage>>

sentVars == <<sentArg, sentRet>>

dispatchVars == <<datasetName, textArg, branch, ret>>

ollamaVars == <<maxRetries, attempt, chats, sleeps, chatLog, response>>

summaryVars == <<summaryArg, summaryRet>>

sessionVars == <<query_config, params, calls, lastCall>>

vars == <<op, pc, outcome, voteVars, goldVars, sentVars, dispatchVars, ollamaVars, summaryVars, sessionVars>>

(***************************************************************************)
(* Bounds of the model.                                                    *)
(***************************************************************************)
MaxResponses == 5
MaxDictResponses == 3
MaxDictKeys == 2
MaxChunks == 3
MaxFragments == 3
MaxNameParts == 3

\* The largest custom_max_retries of a parameter record.
MaxRetries == 3

\* The most pieces of a string in the calls that follow the parse stages.
MaxStageChunks == 3

\* The most pieces of a text handed to clean_llm_output_summary.
MaxSummaryPieces == 3
MaxCalls == 3

(***************************************************************************)
(* Helpers on sequences.                                                   *)
(***************************************************************************)
Range(s) == {s[i] : i \in DOMAIN s}

SeqsUpTo(S, n) == UNION {[1..k -> S] : k \in 0..n}

Min(S) == CHOOSE x \in S : \A y \in S : x <= y

\* In the voting functions a Python dict is a function from its keys to
\* its values.
EmptyDict == [k \in {} |-> 0]

\* The state of the variables of the voting functions in a run that does
\* not call them.
VoteIdle ==
    /\ responses = <<>>
    /\ voteRet = "none"
    /\ dictResponses = <<>>
    /\ dictRet = EmptyDict

\* None, or a str by its characters and by its lexical tokens.
NoneText == [none |-> TRUE, chars |-> <<>>, toks |-> <<>>]

StrText(chars, toks) == [none |-> FALSE, chars |-> chars, toks |-> toks]

(***************************************************************************)
(* Python values, as far as clean_llm_output_gold tells them apart.  Every *)
(* value is a record of the same shape: t is the type, n the number of an  *)
(* int or bool (True is 1, False is 0), s the text of a str, keys the keys *)
(* of a dict in insertion order, items the elements of a list or the       *)
(* values of a dict, in the order of its keys.                             *)
(***************************************************************************)
PyVal(t, n, s, keys, items) == [t |-> t, n |-> n, s |-> s, keys |-> keys, items |-> items]

PyInt(n) == PyVal("int", n, "", <<>>, <<>>)

PyBool(b) == PyVal("bool", IF b THEN 1 ELSE 0, "", <<>>, <<>>)

PyStr(s) == PyVal("str", 0, s, <<>>, <<>>)

PyNone == PyVal("NoneType", 0, "", <<>>, <<>>)

PyList(items) == PyVal("list", 0, "", <<>>, items)

PyDict(keys, items) == PyVal("dict", 0, "", keys, items)

\* key in d, d[key] and d[key] = v for a dict d.
DictHas(d, key) == \E i \in DOMAIN d.keys : d.keys[i] = key

DictGet(d, key) == d.items[CHOOSE i \in DOMAIN d.keys : d.keys[i] = key]

DictSet(d, key, v) ==
    IF DictHas(d, key)
    THEN PyDict(d.keys, [i \in DOMAIN d.items |-> IF d.keys[i] = key THEN v ELSE d.items[i]])
    ELSE PyDict(Append(d.keys, key), Append(d.items, v))

\* Mutant: the test is isinstance(value, int), whatever the number.
PyEqInt_any_int(v, n) == v.t \in {"int", "bool"}

\* v == n for an int n: bool is a subtype of int, so True == 1 and False == 0.
PyEqInt(v, n) == v.t \in {"int", "bool"} /\ v.n = n

\* What a call returned: t is "none" before the call and then the type of
\* the value: an int n, a dict val, a str of the characters chars, the
\* name s of a parameter record, or None.
Ret(t, n, val, chars, s) == [t |-> t, n |-> n, val |-> val, chars |-> chars, s |-> s]

NoRet == Ret("none", 0, PyNone, <<>>, "")

\* The state of the other variables in a run that does not use them.
SentIdle ==
    /\ sentArg = NoneText
    /\ sentRet = -1

DispatchIdle ==
    /\ datasetName = <<>>
    /\ textArg = NoneText
    /\ branch = "none"
    /\ ret = NoRet

OllamaIdle ==
    /\ maxRetries = 0
    /\ attempt = 0
    /\ chats = 0
    /\ sleeps = 0
    /\ chatLog = <<>>
    /\ response = NoneText

SummaryIdle ==
    /\ summaryArg = <<>>
    /\ summaryRet = <<>>

SessionIdle ==
    /\ query_config = <<>>
    /\ params = PyNone
    /\ calls = 0
    /\ lastCall = "none"

\* The expected keys, in the order of the list.
expected_keys ==
    << "price_or_not", "price_up", "price_const_stable", "price_down",
       "past_price_info", "future_price_info", "past_gen_info",
       "future_gen_info", "asset_comparison" >>

(***************************************************************************)
(* Text handed to clean_llm_output_gold.  A string is a sequence of        *)
(* lexical tokens separated by single blanks: brackets, colon, comma,      *)
(* double- and single-quoted strings, integers, the JSON literals, bare    *)
(* words and code fences (three backticks, with or without a tag).  k is   *)
(* the kind of the token, s its text and n the number of an integer.       *)
(***************************************************************************)
Tok(k, s, n) == [k |-> k, s |-> s, n |-> n]

LB == Tok("lb", "{", 0)
RB == Tok("rb", "}", 0)
LS == Tok("ls", "[", 0)
RS == Tok("rs", "]", 0)
COLON == Tok("colon", ":", 0)
COMMA == Tok("comma", ",", 0)
DQ(s) == Tok("dq", s, 0)
SQ(s) == Tok("sq", s, 0)
INT(n) == Tok("int", "", n)
LIT(s) == Tok("lit", s, 0)
WORD(s) == Tok("word", s, 0)
FENCE(tag) == Tok("fence", tag, 0)

(***************************************************************************)
(* re.sub(r'```(?:json|python)?\s*|\s*```', '', input_data)                *)
(* (query_utils.py:219).  At the start of the text the first alternative   *)
(* matches a fence with its tag and the blank after it, and so again for a *)
(* fence that follows directly.  After any other token the second          *)
(* alternative matches first, from the blank before the fence: it removes  *)
(* that blank and the backticks and leaves the tag, which is thereby       *)
(* joined to the token before it.                                          *)
(***************************************************************************)
\* The token before a fence, with the fence's tag joined to it: digits
\* followed by letters still start with the integer, a word stays a word
\* (of another text), and after any other token the tag is a word of its own.
Glue(prev, tag) ==
    CASE prev.k \in {"int", "intword"} -> <<Tok("intword", "glued", prev.n)>>
      [] prev.k \in {"word", "lit"}    -> <<WORD("glued")>>
      [] OTHER                         -> <<prev, WORD(tag)>>

RECURSIVE StripFences(_, _)
StripFences(toks, out) ==
    IF toks = <<>> THEN out
    ELSE LET t == Head(toks)
         IN  IF t.k # "fence" THEN StripFences(Tail(toks), Append(out, t))
             ELSE IF out = <<>> \/ t.s = "" THEN StripFences(Tail(toks), out)
             ELSE StripFences(Tail(toks),
                              SubSeq(out, 1, Len(out) - 1) \o Glue(out[Len(out)], t.s))

(***************************************************************************)
(* re.findall(r'(?:\{|\[).*?(?:\}|\])', clean_input, re.DOTALL)            *)
(* (query_utils.py:222-223): from the first opening bracket to the first   *)
(* closing bracket after it, of either shape, then again after that one.   *)
(***************************************************************************)
RECURSIVE json_matches(_, _)
json_matches(toks, from) ==
    LET opens == {i \in from..Len(toks) : toks[i].k \in {"lb", "ls"}}
    IN  IF opens = {} THEN <<>>
        ELSE LET o == Min(opens)
                 closes == {j \in (o + 1)..Len(toks) : toks[j].k \in {"rb", "rs"}}
             IN  IF closes = {} THEN <<>>
                 ELSE <<SubSeq(toks, o, Min(closes))>>
                          \o json_matches(toks, Min(closes) + 1)

(***************************************************************************)
(* json.loads on a sequence of tokens: a recursive-descent parse of one    *)
(* JSON value.  ok is FALSE for json.JSONDecodeError; nxt is the position  *)
(* after the value.                                                        *)
(***************************************************************************)
ParseFail == [ok |-> FALSE, val |-> PyNone, nxt |-> 0]

ParseOk(v, nxt) == [ok |-> TRUE, val |-> v, nxt |-> nxt]

LitValue(s) == IF s = "null" THEN PyNone ELSE PyBool(s = "true")

KindAt(toks, i) == IF i \in DOMAIN toks THEN toks[i].k ELSE "end"

RECURSIVE ParseValue(_, _), ParseElements(_, _, _), ParseMembers(_, _, _)
ParseValue(toks, i) ==
    CASE KindAt(toks, i) = "dq"  -> ParseOk(PyStr(toks[i].s), i + 1)
      [] KindAt(toks, i) = "int" -> ParseOk(PyInt(toks[i].n), i + 1)
      [] KindAt(toks, i) = "lit" -> ParseOk(LitValue(toks[i].s), i + 1)
      [] KindAt(toks, i) = "ls"  ->
            IF KindAt(toks, i + 1) = "rs" THEN ParseOk(PyList(<<>>), i + 2)
            ELSE ParseElements(toks, i + 1, <<>>)
      [] KindAt(toks, i) = "lb"  ->
            IF KindAt(toks, i + 1) = "rb" THEN ParseOk(PyDict(<<>>, <<>>), i + 2)
            ELSE ParseMembers(toks, i + 1, PyDict(<<>>, <<>>))
      [] OTHER -> ParseFail

\* The elements of an array after "[" or ",".
ParseElements(toks, i, acc) ==
    LET r == ParseValue(toks, i)
    IN  IF ~r.ok THEN ParseFail
        ELSE CASE KindAt(toks, r.nxt) = "comma" ->
                      ParseElements(toks, r.nxt + 1, Append(acc, r.val))
               [] KindAt(toks, r.nxt) = "rs" ->
                      ParseOk(PyList(Append(acc, r.val)), r.nxt + 1)
               [] OTHER -> ParseFail

\* The members of an object after "{" or ",": a repeated key keeps its
\* place and takes the last value.
ParseMembers(toks, i, acc) ==
    IF KindAt(toks, i) # "dq" \/ KindAt(toks, i + 1) # "colon" THEN ParseFail
    ELSE LET r == ParseValue(toks, i + 2)
         IN  IF ~r.ok THEN ParseFail
             ELSE CASE KindAt(toks, r.nxt) = "comma" ->
                           ParseMembers(toks, r.nxt + 1, DictSet(acc, toks[i].s, r.val))
                    [] KindAt(toks, r.nxt) = "rb" ->
                           ParseOk(DictSet(acc, toks[i].s, r.val), r.nxt + 1)
                    [] OTHER -> ParseFail

\* json.loads(text): one value and nothing after it.
json_loads(toks) ==
    LET r == ParseValue(toks, 1)
    IN  IF r.ok /\ r.nxt = Len(toks) + 1 THEN r ELSE ParseFail

(***************************************************************************)
(* clean_input.replace("'", '"') (query_utils.py:244): a single-quoted     *)
(* string becomes a double-quoted one.                                     *)
(***************************************************************************)
ReplaceQuotes(toks) ==
    [i \in DOMAIN toks |-> IF toks[i].k = "sq" THEN DQ(toks[i].s) ELSE toks[i]]

(***************************************************************************)
(* re.findall(r'"?(\w+)"?\s*:\s*(-?\d+)', clean_input) and the dict built  *)
(* from the pairs (query_utils.py:248-249).                                *)
(***************************************************************************)
\* The tokens whose text ends in \w+ (with an optional double quote after
\* it), and the \w+ matched: of an integer it is the digits.
IsKeyToken(t) == t.k \in {"dq", "word", "lit", "int", "intword"}

KeyText(t) ==
    CASE t.k = "int"     -> ToString(IF t.n < 0 THEN -t.n ELSE t.n)
      [] t.k = "intword" -> "glued"
      [] OTHER           -> t.s

\* The tokens whose text starts with -?\d+.
IsIntToken(t) == t.k \in {"int", "intword"}

RECURSIVE regex_pairs(_, _, _)
regex_pairs(toks, i, acc) ==
    IF i > Len(toks) THEN acc
    ELSE IF /\ i + 2 <= Len(toks)
            /\ IsKeyToken(toks[i])
            /\ toks[i + 1].k = "colon"
            /\ IsIntToken(toks[i + 2])
         THEN regex_pairs(toks, i + 3,
                          DictSet(acc, KeyText(toks[i]), PyInt(toks[i + 2].n)))
         ELSE regex_pairs(toks, i + 1, acc)

(***************************************************************************)
(* clean_llm_output_gold (query_utils.py:186-258).  Its argument is a      *)
(* record: kind is "dict", "str" or "other" (what the two isinstance       *)
(* tests tell apart), val the value of a dict or other argument, toks the  *)
(* text of a str.                                                          *)
(***************************************************************************)
GoldArg(kind, val, toks) == [kind |-> kind, val |-> val, toks |-> toks]

\* Lines 227-234: the first bracket match that json.loads parses into a
\* dict holding at least one expected key; {} when there is none.
IsCandidate(m) ==
    LET r == json_loads(m)
    IN  /\ r.ok
        /\ r.val.t = "dict"
        /\ \E i \in DOMAIN expected_keys : DictHas(r.val, expected_keys[i])

\* Mutant: the last such match, not the first.
bracket_stage_last_candidate(clean_input) ==
    LET matches == json_matches(clean_input, 1)
        good    == {i \in DOMAIN matches : IsCandidate(matches[i])}
    IN  IF good = {} THEN PyDict(<<>>, <<>>)
        ELSE json_loads(matches[CHOOSE i \in good : \A j \in good : j <= i]).val

bracket_stage(clean_input) ==
    LET matches == json_matches(clean_input, 1)
        good    == {i \in DOMAIN matches : IsCandidate(matches[i])}
    IN  IF good = {} THEN PyDict(<<>>, <<>>)
        ELSE json_loads(matches[Min(good)]).val

\* not x, for the values parsed_data holds at line 237.
PyNot(v) ==
    CASE v.t = "dict" -> v.keys = <<>>
      [] v.t = "list" -> v.items = <<>>
      [] v.t = "str"  -> v.s = ""
      [] v.t \in {"int", "bool"} -> v.n = 0
      [] OTHER -> TRUE

\* Lines 236-249: the stages tried when the bracket stage found nothing,
\* with the stage that set parsed_data.
later_stages(clean_input) ==
    LET direct == json_loads(clean_input)
        quoted == json_loads(ReplaceQuotes(clean_input))
    IN  IF direct.ok THEN [stage |-> "direct", val |-> direct.val]
        ELSE IF quoted.ok THEN [stage |-> "quoted", val |-> quoted.val]
        ELSE [stage |-> "pairs",
              val |-> regex_pairs(ReplaceQuotes(clean_input), 1, PyDict(<<>>, <<>>))]

\* Lines 212-249: parsed_data and the statement that set it last: line 216
\* ("mapping"), 231 ("bracket"), 239 ("direct"), 245 ("quoted"), 249
\* ("pairs") or only line 213 ("none").
parse_stages(arg) ==
    CASE arg.kind = "dict" -> [stage |-> "mapping", val |-> arg.val]
      [] arg.kind = "str"  ->
            LET clean_input == StripFences(arg.toks, <<>>)
                found == bracket_stage(clean_input)
            IN  IF PyNot(found) THEN later_stages(clean_input)
                ELSE [stage |-> "bracket", val |-> found]
      [] OTHER -> [stage |-> "none", val |-> PyDict(<<>>, <<>>)]

parsed_data(arg) == parse_stages(arg).val

\* key in text for a str: the texts of the model are an expected key or a
\* text that holds none, so containment is equality.
StrContains(text, key) == text = key

\* key in parsed_data (line 253); "TypeError" where Python raises it.
KeyIn(key, v) ==
    CASE v.t = "dict" -> IF DictHas(v, key) THEN "yes" ELSE "no"
      [] v.t = "list" -> IF \E i \in DOMAIN v.items : v.items[i] = PyStr(key)
                         THEN "yes" ELSE "no"
      [] v.t = "str"  -> IF StrContains(v.s, key) THEN "yes" ELSE "no"
      [] OTHER        -> "TypeError"

\* Lines 252-256 from the i-th expected key on: parsed_data[key] raises
\* TypeError for a list or a str indexed by a key.
RECURSIVE validate(_, _, _)
validate(parsed, i, result) ==
    IF i > Len(expected_keys) THEN [outcome |-> "return", ret |-> result]
    ELSE LET key == expected_keys[i]
             has == KeyIn(key, parsed)
         IN  CASE has = "TypeError" -> [outcome |-> "TypeError", ret |-> PyNone]
               [] has = "no" -> validate(parsed, i + 1, result)
               [] OTHER ->
                    IF parsed.t # "dict" THEN [outcome |-> "TypeError", ret |-> PyNone]
                    ELSE LET v == DictGet(parsed, key)
                         IN  IF PyEqInt(v, 0) \/ PyEqInt(v, 1)    \* in [0, 1]
                             THEN validate(parsed, i + 1, DictSet(result, key, v))
                             ELSE validate(parsed, i + 1, result)

\* Line 210: every expected key at -1.
initial_result == PyDict(expected_keys, [i \in DOMAIN expected_keys |-> PyInt(-1)])

clean_llm_output_gold(arg) == validate(parsed_data(arg), 1, initial_result)

(***************************************************************************)
(* The arguments clean_llm_output_gold is called with.                     *)
(***************************************************************************)
\* Mappings: up to n keys among four of the expected keys (the first, the
\* last and two between) and one other key, each with a valid flag,
\* another int, or a value of another type.
GoldKeyNames == <<"price_or_not", "price_up", "price_down", "asset_comparison", "junk">>

GoldDictValues ==
    { PyInt(0), PyInt(1), PyInt(-1), PyInt(2), PyBool(TRUE),
      PyStr("1"), PyNone, PyList(<<>>) }

KeysInOrder(K) == SelectSeq(GoldKeyNames, LAMBDA k : k \in K)

GoldDicts(n) ==
    UNION { { PyDict(KeysInOrder(K), [i \in 1..Cardinality(K) |-> f[KeysInOrder(K)[i]]]) :
                f \in [K -> GoldDictValues] } :
            K \in {K \in SUBSET Range(GoldKeyNames) : Cardinality(K) <= n} }

GoldDictArgs(n) == {GoldArg("dict", d, <<>>) : d \in GoldDicts(n)}

\* Strings: up to MaxChunks pieces of text, each a few tokens, one after
\* the other.
GoldChunks ==
    { <<LB, DQ("price_up"), COLON, INT(1), RB>>,       \* {"price_up": 1}
      <<LB, DQ("junk"), COLON, INT(1), RB>>,           \* {"junk": 1}
      <<LB, SQ("price_down"), COLON, INT(0), RB>>,     \* {'price_down': 0}
      <<LS, DQ("price_up"), RS>>,                      \* ["price_up"]
      <<DQ("price_down"), COLON, INT(1)>>,             \* "price_down": 1
      <<DQ("price_or_not"), COLON, LIT("true")>>,      \* "price_or_not": true
      <<WORD("price_up"), COLON, INT(2)>>,             \* price_up: 2
      <<INT(5)>>,                                      \* 5
      <<LIT("null")>>,                                 \* null
      <<DQ("price_up")>>,                              \* "price_up"
      <<WORD("garbage")>>,                             \* garbage
      <<FENCE("json")>>,                               \* ```json
      <<FENCE("")>>,                                   \* ```
      <<LB>>, <<RB>>, <<LS>>, <<RS>>, <<COMMA>> }

RECURSIVE ChunkStrings(_)
ChunkStrings(n) ==
    IF n = 0 THEN {<<>>}
    ELSE LET shorter == ChunkStrings(n - 1)
         IN  shorter \cup {p \o c : p \in shorter, c \in GoldChunks}

\* Every argument: a mapping, a string, or another value (None, an int).
GoldArgs(nKeys, nChunks) ==
    GoldDictArgs(nKeys)
        \cup {GoldArg("str", PyNone, t) : t \in ChunkStrings(nChunks)}
        \cup {GoldArg("other", PyNone, <<>>), GoldArg("other", PyInt(7), <<>>)}

InitGold ==
    /\ op = "clean_llm_output_gold"
    /\ pc = "call"
    /\ outcome = "none"
    /\ VoteIdle /\ SentIdle /\ DispatchIdle /\ OllamaIdle /\ SummaryIdle /\ SessionIdle
    /\ goldArg \in GoldArgs(MaxDictKeys, MaxChunks)
    /\ goldRet = PyNone
    /\ goldStage = "none"

\* The call: no statement of the function writes to input_data or to
\* parsed_data, so the argument is after the call what it was before.
CallCleanGold ==
    /\ op = "clean_llm_output_gold"
    /\ pc = "call"
    /\ pc' = "done"
    /\ LET r == clean_llm_output_gold(goldArg)
       IN  outcome' = r.outcome /\ goldRet' = r.ret
    /\ goldStage' = parse_stages(goldArg).stage
    /\ goldArg' = goldArg
    /\ UNCHANGED <<op, sessionVars, summaryVars, voteVars, sentVars, dispatchVars, ollamaVars>>

SpecGold == InitGold /\ [][CallCleanGold]_vars

\* The calls with a mapping.
InitGoldDict ==
    /\ op = "clean_llm_output_gold"
    /\ pc = "call"
    /\ outcome = "none"
    /\ VoteIdle /\ SentIdle /\ DispatchIdle /\ OllamaIdle /\ SummaryIdle /\ SessionIdle
    /\ goldArg \in GoldDictArgs(MaxDictKeys)
    /\ goldRet = PyNone
    /\ goldStage = "none"

SpecGoldDict == InitGoldDict /\ [][CallCleanGold]_vars

\* The calls with a string of up to MaxStageChunks pieces, each a text that
\* one of the stages takes or that none takes.
StageChunks ==
    { <<LB, DQ("price_up"), COLON, INT(1), RB>>,       \* {"price_up": 1}
      <<LB, DQ("price_down"), COLON, INT(1), RB>>,     \* {"price_down": 1}
      <<LB, DQ("junk"), COLON, INT(1), RB>>,           \* {"junk": 1}
      <<LB, SQ("price_down"), COLON, INT(0), RB>>,     \* {'price_down': 0}
      <<LS, DQ("price_up"), RS>>,                      \* ["price_up"]
      <<DQ("price_or_not"), COLON, INT(1)>>,           \* "price_or_not": 1
      <<INT(5)>>,                                      \* 5
      <<WORD("garbage")>>,                             \* garbage
      <<FENCE("json")>>,                               \* a fence with the tag json
      <<COMMA>> }

RECURSIVE StageStrings(_)
StageStrings(n) ==
    IF n = 0 THEN {<<>>}
    ELSE LET shorter == StageStrings(n - 1)
         IN  shorter \cup {p \o c : p \in shorter, c \in StageChunks}

InitGoldStages ==
    /\ op = "clean_llm_output_gold"
    /\ pc = "call"
    /\ outcome = "none"
    /\ VoteIdle /\ SentIdle /\ DispatchIdle /\ OllamaIdle /\ SummaryIdle /\ SessionIdle
    /\ goldArg \in {GoldArg("str", PyNone, t) : t \in StageStrings(MaxStageChunks)}
    /\ goldRet = PyNone
    /\ goldStage = "none"

SpecGoldStages == InitGoldStages /\ [][CallCleanGold]_vars

\* The state of the variables of clean_llm_output_gold in a run that does
\* not call it.
GoldIdle ==
    /\ goldArg = GoldArg("other", PyNone, <<>>)
    /\ goldRet = PyNone
    /\ goldStage = "none"

(***************************************************************************)
(* collections.Counter and Counter.most_common(1).                         *)
(***************************************************************************)
\* Counter(s)[x]: the number of positions of s that hold x.
Count(x, s) == Cardinality({i \in DOMAIN s : s[i] = x})

\* A Counter keeps its keys in order of first insertion.
FirstIndex(x, s) == Min({i \in DOMAIN s : s[i] = x})

\* Counter(s).most_common(1)[0]: max() over the items in insertion order,
\* keyed by count, so among the most frequent items the first inserted wins.
MostCommon(s) ==
    LET best == CHOOSE x \in Range(s) :
                    /\ \A y \in Range(s) : Count(y, s) <= Count(x, s)
                    /\ \A y \in Range(s) : Count(y, s) = Count(x, s)
                                             => FirstIndex(x, s) <= FirstIndex(y, s)
    IN  <<best, Count(best, s)>>

(***************************************************************************)
(* find_majority_str (query_utils.py:26-41).  The operator is the set of   *)
(* values the call can return: one value on the deterministic branch, and  *)
(* one per position of the list for random.choice(responses).              *)
(***************************************************************************)
\* Mutant: the threshold is len(responses) instead of len(responses) / 2.
find_majority_str_full_length(s) ==
    LET majority == MostCommon(s)
    IN  IF majority[2] > Len(s) THEN {majority[1]} ELSE {s[i] : i \in DOMAIN s}

\* Mutant: a tie is broken among the most frequent items only.
find_majority_str_among_leaders(s) ==
    LET majority == MostCommon(s)
    IN  IF 2 * majority[2] > Len(s)
        THEN {majority[1]}
        ELSE {x \in Range(s) : Count(x, s) = majority[2]}

find_majority_str(s) ==
    LET majority == MostCommon(s)
    IN  IF 2 * majority[2] > Len(s)          \* majority[1] > len(responses) / 2
        THEN {majority[1]}
        ELSE {s[i] : i \in DOMAIN s}         \* random.choice(responses)

Items == {"a", "b", "c"}

InitVoteStr ==
    /\ op = "find_majority_str"
    /\ pc = "call"
    /\ outcome = "none"
    /\ responses \in SeqsUpTo(Items, MaxResponses)
    /\ voteRet = "none"
    /\ dictResponses = <<>>
    /\ dictRet = EmptyDict
    /\ GoldIdle /\ SentIdle /\ DispatchIdle /\ OllamaIdle /\ SummaryIdle /\ SessionIdle

\* most_common(1) of an empty Counter is [], and [][0] raises IndexError.
CallFindMajorityStr ==
    /\ op = "find_majority_str"
    /\ pc = "call"
    /\ pc' = "done"
    /\ IF responses = <<>>
       THEN outcome' = "IndexError" /\ voteRet' = voteRet
       ELSE outcome' = "return" /\ voteRet' \in find_majority_str(responses)
    /\ UNCHANGED <<op, sessionVars, summaryVars, responses, dictResponses, dictRet, goldVars, sentVars, dispatchVars, ollamaVars>>

SpecVoteStr == InitVoteStr /\ [][CallFindMajorityStr]_vars

(***************************************************************************)
(* find_majority_dict (query_utils.py:43-72).                              *)
(***************************************************************************)
\* The first loop: majority_dict[key] is the list of the values that the
\* responses holding the key give it, in the order of the responses.
RECURSIVE ValuesFor(_, _)
ValuesFor(key, rs) ==
    IF rs = <<>> THEN <<>>
    ELSE LET front == ValuesFor(key, SubSeq(rs, 1, Len(rs) - 1))
             last  == rs[Len(rs)]
         IN  IF key \in DOMAIN last THEN Append(front, last[key]) ELSE front

\* The keys majority_dict has after the first loop.
KeysOf(rs) == UNION {DOMAIN rs[i] : i \in DOMAIN rs}

\* The body of the second loop, for one key: the values majority_dict[key]
\* can be given.
\* Mutant: the comparison is >= instead of >.
key_majority_at_least_half(values) ==
    LET majority == MostCommon(values)
    IN  IF 2 * majority[2] >= Len(values)
        THEN {majority[1]}
        ELSE {values[i] : i \in DOMAIN values}

key_majority(values) ==
    LET majority == MostCommon(values)
    IN  IF 2 * majority[2] > Len(values)     \* majority[1] > len(values) / 2
        THEN {majority[1]}
        ELSE {values[i] : i \in DOMAIN values}   \* random.choice(values)

\* The mappings the call can return.
find_majority_dict(rs) ==
    {f \in [KeysOf(rs) -> UNION {Range(ValuesFor(k, rs)) : k \in KeysOf(rs)}] :
        \A k \in KeysOf(rs) : f[k] \in key_majority(ValuesFor(k, rs))}

\* The Gold labels voted on: mappings from some of two of the expected keys
\* to a flag or the invalid value.
VoteKeys == {"price_up", "price_down"}
VoteValues == {0, 1, -1}
VoteLabels == UNION {[K -> VoteValues] : K \in SUBSET VoteKeys}

InitVoteDict ==
    /\ op = "find_majority_dict"
    /\ pc = "call"
    /\ outcome = "none"
    /\ responses = <<>>
    /\ voteRet = "none"
    /\ dictResponses \in SeqsUpTo(VoteLabels, MaxDictResponses)
    /\ dictRet = EmptyDict
    /\ GoldIdle /\ SentIdle /\ DispatchIdle /\ OllamaIdle /\ SummaryIdle /\ SessionIdle

CallFindMajorityDict ==
    /\ op = "find_majority_dict"
    /\ pc = "call"
    /\ pc' = "done"
    /\ outcome' = "return"
    /\ dictRet' \in find_majority_dict(dictResponses)
    /\ UNCHANGED <<op, sessionVars, summaryVars, responses, voteRet, dictResponses, goldVars, sentVars, dispatchVars, ollamaVars>>

SpecVoteDict == InitVoteDict /\ [][CallFindMajorityDict]_vars

(***************************************************************************)
(* Strings that the code searches character by character (dataset names,   *)
(* text searched for sentiment words) are sequences of one-character       *)
(* strings.                                                                *)
(***************************************************************************)
\* needle in hay.
Contains(needle, hay) ==
    \E i \in 0..(Len(hay) - Len(needle)) : SubSeq(hay, i + 1, i + Len(needle)) = needle

\* The concatenations of up to n of the given pieces.
RECURSIVE Concats(_, _)
Concats(pieces, n) ==
    IF n = 0 THEN {<<>>}
    ELSE LET shorter == Concats(pieces, n - 1)
         IN  shorter \cup {p \o c : p \in shorter, c \in pieces}

KwSentiment == <<"s", "e", "n", "t", "i", "m", "e", "n", "t">>
KwGold == <<"g", "o", "l", "d">>
KwSummary == <<"s", "u", "m", "m", "a", "r", "y">>

(***************************************************************************)
(* The three dispatchers on the dataset name (query_utils.py:8-24, 74-80). *)
(* Each operator gives what its if-chain selects: the parameter record     *)
(* returned, or the function called.                                       *)
(***************************************************************************)
get_query_params(dataset_name) ==
    IF Contains(KwSentiment, dataset_name) THEN [outcome |-> "return", ret |-> "query_params_sentiment"]
    ELSE IF Contains(KwGold, dataset_name) THEN [outcome |-> "return", ret |-> "query_params_gold"]
    ELSE IF Contains(KwSummary, dataset_name) THEN [outcome |-> "return", ret |-> "query_params_summary"]
    ELSE [outcome |-> "ValueError", ret |-> "none"]

\* find_majority: the branch taken; "None" when the chain falls through,
\* where the function ends without a return statement and so returns None.
find_majority_branch(dataset_name) ==
    IF Contains(KwSentiment, dataset_name) THEN "sentiment"
    ELSE IF Contains(KwGold, dataset_name) THEN "gold"
    ELSE IF Contains(KwSummary, dataset_name) THEN "summary"
    ELSE "None"

\* Mutant: the chain tests "gold" before "sentiment".
clean_llm_output_branch_gold_first(dataset_name) ==
    IF Contains(KwGold, dataset_name) THEN "gold"
    ELSE IF Contains(KwSentiment, dataset_name) THEN "sentiment"
    ELSE IF Contains(KwSummary, dataset_name) THEN "summary"
    ELSE "None"

\* clean_llm_output: the branch taken, likewise.
clean_llm_output_branch(dataset_name) ==
    IF Contains(KwSentiment, dataset_name) THEN "sentiment"
    ELSE IF Contains(KwGold, dataset_name) THEN "gold"
    ELSE IF Contains(KwSummary, dataset_name) THEN "summary"
    ELSE "None"

\* find_majority(responses, dataset_name): the values the call can return.
find_majority(rs, dataset_name) ==
    CASE find_majority_branch(dataset_name) = "sentiment" -> find_majority_str(rs)
      [] find_majority_branch(dataset_name) = "gold"      -> find_majority_dict(rs)
      [] find_majority_branch(dataset_name) = "summary"   -> find_majority_str(rs)
      [] OTHER -> {"None"}

(***************************************************************************)
(* clean_llm_output_sentiment (query_utils.py:145-183).  Its argument is   *)
(* None or a str: a record with none = TRUE, or with the characters.       *)
(***************************************************************************)
\* str.strip(): the text without the white space at its two ends.
WhiteSpace == {" ", "\n", "\t"}

RECURSIVE LStrip(_)
LStrip(cs) == IF cs # <<>> /\ Head(cs) \in WhiteSpace THEN LStrip(Tail(cs)) ELSE cs

RECURSIVE RStrip(_)
RStrip(cs) ==
    IF cs # <<>> /\ cs[Len(cs)] \in WhiteSpace THEN RStrip(SubSeq(cs, 1, Len(cs) - 1)) ELSE cs

Strip(cs) == RStrip(LStrip(cs))

\* str.lower(), on the letters of the model's texts.
LowerChar(c) ==
    CASE c = "E" -> "e" [] c = "I" -> "i" [] c = "N" -> "n" [] c = "O" -> "o"
      [] c = "P" -> "p" [] c = "S" -> "s" [] c = "T" -> "t" [] c = "V" -> "v"
      [] OTHER -> c

Lower(cs) == [i \in DOMAIN cs |-> LowerChar(cs[i])]

\* mapping and the order of its keys (lines 156-160).
sentiment_words == <<"negative", "neutral", "positive">>

mapping == [negative |-> 0, neutral |-> 1, positive |-> 2]

Spelling ==
    [negative |-> <<"n", "e", "g", "a", "t", "i", "v", "e">>,
     neutral  |-> <<"n", "e", "u", "t", "r", "a", "l">>,
     positive |-> <<"p", "o", "s", "i", "t", "i", "v", "e">>]

\* len(re.findall(word, text)): the matches of a literal word, found from
\* left to right, each search starting where the match before it ended.
\* Mutant: the word is counted once when it occurs (word in text).
FindAllCount_once(word, text, from) == IF Contains(word, text) THEN 1 ELSE 0

RECURSIVE FindAllCount(_, _, _)
FindAllCount(word, text, from) ==
    LET starts == {i \in from..(Len(text) - Len(word) + 1) :
                       SubSeq(text, i, i + Len(word) - 1) = word}
    IN  IF starts = {} THEN 0
        ELSE 1 + FindAllCount(word, text, Min(starts) + Len(word))

\* [word] * n
Repeat(word, n) == [i \in 1..n |-> word]

\* Lines 172-175: words_found.
words_found(text) ==
    Repeat(sentiment_words[1], FindAllCount(Spelling[sentiment_words[1]], text, 1))
        \o Repeat(sentiment_words[2], FindAllCount(Spelling[sentiment_words[2]], text, 1))
        \o Repeat(sentiment_words[3], FindAllCount(Spelling[sentiment_words[3]], text, 1))

\* The integers the call can return; it raises nothing.
clean_llm_output_sentiment(arg) ==
    IF arg.none \/ arg.chars = <<>> THEN {-1}
    ELSE LET text == Lower(Strip(arg.chars))
         IN  IF \E w \in Range(sentiment_words) : text = Spelling[w]
             THEN {mapping[w] : w \in {w \in Range(sentiment_words) : text = Spelling[w]}}
             ELSE IF words_found(text) = <<>> THEN {-1}
             ELSE {mapping[w] : w \in find_majority(words_found(text), KwSentiment)}

\* The texts of the model: up to MaxFragments pieces, one after the other.
SentimentFragments ==
    { <<"n", "e", "g", "a", "t", "i", "v", "e">>, <<"n", "e", "u", "t", "r", "a", "l">>, <<"p", "o", "s", "i", "t", "i", "v", "e">>, <<"P", "o", "s", "i", "t", "i", "v", "e">>, <<"P", "O", "S", "I", "T", "I", "V", "E">>,
      <<"n", "e", "g">>, <<"a", "t", "i", "v", "e">>, <<" ">>, <<"n", "o", "t">>, <<"\n">> }

\* The tokens of these texts play no part in this function.
SentimentArgs ==
    {NoneText} \cup {StrText(cs, <<>>) : cs \in Concats(SentimentFragments, MaxFragments)}

InitSentiment ==
    /\ op = "clean_llm_output_sentiment"
    /\ pc = "call"
    /\ outcome = "none"
    /\ VoteIdle /\ GoldIdle /\ DispatchIdle /\ OllamaIdle /\ SummaryIdle /\ SessionIdle
    /\ sentArg \in SentimentArgs
    /\ sentRet = -1

CallCleanSentiment ==
    /\ op = "clean_llm_output_sentiment"
    /\ pc = "call"
    /\ pc' = "done"
    /\ outcome' = "return"
    /\ sentRet' \in clean_llm_output_sentiment(sentArg)
    /\ UNCHANGED <<op, sessionVars, summaryVars, sentArg, voteVars, goldVars, dispatchVars, ollamaVars>>

SpecSentiment == InitSentiment /\ [][CallCleanSentiment]_vars

(***************************************************************************)
(* clean_llm_output_summary (query_utils.py:82-143), character by          *)
(* character.  re.sub(pattern, '', text) tries the pattern at each         *)
(* position from left to right, deletes a match and goes on after it; an   *)
(* operator ..._end(t, p) is the last position of the match of a pattern   *)
(* that starts at p, and 0 when there is none.  Every pattern of the       *)
(* function matches at least one character.                                *)
(***************************************************************************)
IsDigit(c) == c \in {"0", "1", "2", "3", "4", "5", "6", "7", "8", "9"}

\* ^ under re.MULTILINE: the start of the text or the place after a newline.
LineStart(t, p) == p = 1 \/ t[p - 1] = "\n"

\* The last position of the line that has position p (p - 1 for an empty
\* line): where .* stops and $ holds under re.MULTILINE.
EndOfLine(t, p) ==
    LET nl == {j \in p..Len(t) : t[j] = "\n"}
    IN  IF nl = {} THEN Len(t) ELSE Min(nl) - 1

\* The first position from p on that \s, \d or # does not match: where the
\* greedy \s*, \d+ and #+ stop.  \s matches a newline too.
SkipSpaces(t, p) ==
    LET ns == {j \in p..Len(t) : t[j] \notin WhiteSpace}
    IN  IF ns = {} THEN Len(t) + 1 ELSE Min(ns)

SkipDigits(t, p) ==
    LET ns == {j \in p..Len(t) : ~IsDigit(t[j])}
    IN  IF ns = {} THEN Len(t) + 1 ELSE Min(ns)

SkipHashes(t, p) ==
    LET ns == {j \in p..Len(t) : t[j] # "#"}
    IN  IF ns = {} THEN Len(t) + 1 ELSE Min(ns)

\* The literal w, given in lower case, matches at p under re.IGNORECASE.
MatchAt(w, t, p) ==
    /\ p >= 1
    /\ p + Len(w) - 1 <= Len(t)
    /\ Lower(SubSeq(t, p, p + Len(w) - 1)) = w

\* re.sub(pattern, '', t), from position i on: ends[p] is the end of the
\* match that starts at p, or 0.
RECURSIVE RemoveMatches(_, _, _)
RemoveMatches(t, ends, i) ==
    IF i > Len(t) THEN <<>>
    ELSE IF ends[i] >= i THEN RemoveMatches(t, ends, ends[i] + 1)
    ELSE <<t[i]>> \o RemoveMatches(t, ends, i + 1)

\* Line 94: (?im)^.*?\d+\s+bullet points?.*$  The lazy .*? stops at the first
\* digit of the line from which the rest matches; \s+ may run over
\* newlines; .*$ runs to the end of the line reached.
BulletPoint == <<"b", "u", "l", "l", "e", "t", " ", "p", "o", "i", "n", "t">>

bullet_count_from(t, d) ==
    LET d2 == SkipDigits(t, d)
        s2 == SkipSpaces(t, d2)
    IN  /\ IsDigit(t[d])
        /\ s2 > d2
        /\ MatchAt(BulletPoint, t, s2)

bullet_count_end(t, p) ==
    LET ds == {d \in p..EndOfLine(t, p) : bullet_count_from(t, d)}
    IN  IF LineStart(t, p) /\ ds # {}
        THEN EndOfLine(t, SkipSpaces(t, SkipDigits(t, Min(ds))) + Len(BulletPoint))
        ELSE 0

\* Line 98: (?im)^.*?(bullet points?|summary|summariz|key points|important
\* facts).*?(?:\.|\:|\n)  The match runs from the start of a line over the
\* first keyword of the line to the first period, colon or newline after
\* the keyword, which it includes.
headline_words ==
    { BulletPoint,
      <<"s", "u", "m", "m", "a", "r", "y">>,
      <<"s", "u", "m", "m", "a", "r", "i", "z">>,
      <<"k", "e", "y", " ", "p", "o", "i", "n", "t", "s">>,
      <<"i", "m", "p", "o", "r", "t", "a", "n", "t", " ", "f", "a", "c", "t", "s">> }

headline_end(t, p) ==
    LET ks == {k \in p..EndOfLine(t, p) : \E w \in headline_words : MatchAt(w, t, k)}
        k == Min(ks)
        w == CHOOSE w \in headline_words : MatchAt(w, t, k)
        stops == {j \in (k + Len(w))..Len(t) : t[j] \in {".", ":", "\n"}}
    IN  IF LineStart(t, p) /\ ks # {} /\ stops # {} THEN Min(stops) ELSE 0

\* Line 101: (?m)^#+\s+.*$
header_end(t, p) ==
    LET h == SkipHashes(t, p)
        s == SkipSpaces(t, h)
    IN  IF LineStart(t, p) /\ h > p /\ s > h THEN EndOfLine(t, s) ELSE 0

\* Line 104: (?m)^\s*[\*\-(U+2022)]\s*  The third character of the class is
\* the bullet sign U+2022, which stands in a text as the element "U+2022".
BulletSigns == {"*", "-", "U+2022"}

bullet_end(t, p) ==
    LET s == SkipSpaces(t, p)
    IN  IF LineStart(t, p) /\ s <= Len(t) /\ t[s] \in BulletSigns
        THEN SkipSpaces(t, s + 1) - 1
        ELSE 0

\* Line 107: (?m)^\s*\d+\.\s+
enumeration_end(t, p) ==
    LET s == SkipSpaces(t, p)
        d == SkipDigits(t, s)
    IN  IF /\ LineStart(t, p)
           /\ d > s
           /\ d <= Len(t) /\ t[d] = "."
           /\ SkipSpaces(t, d + 1) > d + 1
        THEN SkipSpaces(t, d + 1) - 1
        ELSE 0

\* Line 110: one or more backticks.  The backtick stands in a text as the
\* element "U+0060".
Backtick == "U+0060"

backtick_end(t, p) ==
    LET ns == {j \in p..Len(t) : t[j] # Backtick}
    IN  IF t[p] = Backtick THEN (IF ns = {} THEN Len(t) ELSE Min(ns) - 1) ELSE 0

\* Lines 113-122: (?i)phrase.*\Z and (?i)phrase.*$ under re.DOTALL: the
\* text from the first occurrence of the phrase on is deleted.
RemoveAfter(w, t) ==
    LET ks == {k \in 1..Len(t) : MatchAt(w, t, k)}
    IN  IF ks = {} THEN t ELSE SubSeq(t, 1, Min(ks) - 1)

phrases_remove_all_after ==
    << <<"h", "e", "r", "e", " ", "i", "s", " ", "t", "h", "e", " ", "r", "e", "s", "p", "o", "n", "s", "e", " ", "i", "n", " ", "t", "h", "e", " ", "c", "o", "r", "r", "e", "c", "t", " ", "f", "o", "r", "m", "a", "t", ":">> >>

phrases_remove_line == << <<"(", "n", "o", "t", "e", ":">> >>

\* Lines 125-137: the phrases, in lower case, in the order of the list.
phrases_remove ==
    << <<"i", " ", "h", "o", "p", "e", " ", "i", "t", " ", "i", "s", " ", "c", "o", "r", "r", "e", "c", "t">>,
       <<"p", "l", "e", "a", "s", "e", " ", "l", "e", "t", " ", "m", "e", " ", "k", "n", "o", "w", " ", "i", "f">>,
       <<"(", "n", "o", "t", "e", ":", " ", "i", " ", "a", "d", "d", "e", "d", " ", "t", "h", "e", " ", "l", "a", "s", "t", " ", "p", "o", "i", "n", "t", " ", "a", "s", " ", "i", "t", " ", "w", "a", "s", " ", "n", "o", "t", " ", "i", "n", " ", "t", "h", "e", " ", "f", "o", "r", "m", "a", "t", " ", "y", "o", "u", " ", "r", "e", "q", "u", "e", "s", "t", "e", "d", ")">>,
       <<"h", "e", "r", "e", " ", "i", "s", " ", "t", "h", "e", " ", "c", "o", "r", "r", "e", "c", "t", "e", "d", " ", "r", "e", "s", "p", "o", "n", "s", "e", ":">>,
       <<"(", "n", "o", "t", "e", ":", " ", "i", " ", "a", "d", "d", "e", "d", " ", "t", "h", "e", " ", "l", "a", "s", "t", " ", "p", "o", "i", "n", "t", " ", "a", "s", " ", "i", "t", " ", "w", "a", "s", " ", "n", "o", "t", " ", "i", "n">>,
       <<"i", " ", "h", "o", "p", "e", " ", "t", "h", "i", "s", " ", "i", "s", " ", "w", "h", "a", "t", " ", "y", "o", "u", " ", "w", "e", "r", "e", " ", "l", "o", "o", "k", "i", "n", "g", " ", "f", "o", "r", ".">>,
       <<"$", "0", ".", "0", "0">>,
       <<"$", "$">>,
       <<"h", "e", "r", "e", " ", "i", "s", " ", "t", "h", "e", " ", "c", "o", "r", "r", "e", "c", "t", "e", "d", " ", "r", "e", "s", "p", "o", "n", "s", "e", ":">> >>

phrase_end(w, t, p) == IF MatchAt(w, t, p) THEN p + Len(w) - 1 ELSE 0

RemovePhrase(w, t) == RemoveMatches(t, [p \in 1..Len(t) |-> phrase_end(w, t, p)], 1)

RECURSIVE RemoveAfterEach(_, _, _)
RemoveAfterEach(ws, i, t) ==
    IF i > Len(ws) THEN t ELSE RemoveAfterEach(ws, i + 1, RemoveAfter(ws[i], t))

RECURSIVE RemoveEach(_, _, _)
RemoveEach(ws, i, t) ==
    IF i > Len(ws) THEN t ELSE RemoveEach(ws, i + 1, RemovePhrase(ws[i], t))

\* Line 140: \n{3,} becomes \n\n: of a run of newlines the third and every
\* later one go.
CollapseNewlines(t) ==
    SelectSeq([i \in 1..Len(t) |-> IF i >= 3 /\ t[i] = "\n" /\ t[i - 1] = "\n" /\ t[i - 2] = "\n"
                                    THEN "" ELSE t[i]],
              LAMBDA c : c # "")

\* The end of the match at p of the pattern of one of the six statements of
\* lines 94-110, and the statement: re.sub(pattern, '', t).
pattern_end(pattern, t, p) ==
    CASE pattern = "bullet_count" -> bullet_count_end(t, p)
      [] pattern = "headline"     -> headline_end(t, p)
      [] pattern = "header"       -> header_end(t, p)
      [] pattern = "bullet"       -> bullet_end(t, p)
      [] pattern = "enumeration"  -> enumeration_end(t, p)
      [] pattern = "backtick"     -> backtick_end(t, p)

Sub(pattern, t) == RemoveMatches(t, [p \in 1..Len(t) |-> pattern_end(pattern, t, p)], 1)

\* The statements of the function in their order, the first innermost;
\* each works on the result of the one before.
cleaned_text(text) ==
    Strip(CollapseNewlines(
        RemoveEach(phrases_remove, 1,
            RemoveAfterEach(phrases_remove_line, 1,
                RemoveAfterEach(phrases_remove_all_after, 1,
                    Sub("backtick", Sub("enumeration", Sub("bullet",
                        Sub("header", Sub("headline", Sub("bullet_count", text)))))))))))

\* The call: re.sub raises TypeError for None (line 94).
clean_llm_output_summary(text) ==
    IF text.none THEN [outcome |-> "TypeError", ret |-> NoRet]
    ELSE [outcome |-> "return", ret |-> Ret("str", 0, PyNone, cleaned_text(text.chars), "")]

(***************************************************************************)
(* clean_llm_output (query_utils.py:74-80): the outcomes the call can      *)
(* have.  The text goes to the function of the branch as it is.            *)
(***************************************************************************)
\* The text as clean_llm_output_gold sees it: not a dict, and a str or not.
AsGoldArg(text) ==
    IF text.none THEN GoldArg("other", PyNone, <<>>)
    ELSE GoldArg("str", PyNone, text.toks)

clean_llm_output(dataset_name, text) ==
    CASE clean_llm_output_branch(dataset_name) = "sentiment" ->
            {[outcome |-> "return", ret |-> Ret("int", n, PyNone, <<>>, "")] :
                 n \in clean_llm_output_sentiment(text)}
      [] clean_llm_output_branch(dataset_name) = "gold" ->
            LET r == clean_llm_output_gold(AsGoldArg(text))
            IN  {[outcome |-> r.outcome,
                  ret |-> IF r.outcome = "return" THEN Ret("dict", 0, r.ret, <<>>, "")
                          ELSE NoRet]}
      [] clean_llm_output_branch(dataset_name) = "summary" ->
            {clean_llm_output_summary(text)}
      [] OTHER -> {[outcome |-> "return", ret |-> Ret("NoneType", 0, PyNone, <<>>, "")]}

(***************************************************************************)
(* Calls of the three dispatchers.                                         *)
(***************************************************************************)
\* Dataset names: up to MaxNameParts pieces, among them the three keywords,
\* a keyword in another case, and two halves of a keyword.
NameParts ==
    { KwSentiment, KwGold, KwSummary, <<"G", "o", "l", "d">>, <<"s", "u", "m">>, <<"m", "a", "r", "y">>, <<"_">>, <<"t", "e", "s", "t">> }

DatasetNames == Concats(NameParts, MaxNameParts)

\* The texts clean_llm_output is called with: None, "", a word and a number.
SampleTexts ==
    { NoneText,
      StrText(<<>>, <<>>),
      StrText(<<"p", "o", "s", "i", "t", "i", "v", "e">>, <<WORD("positive")>>),
      StrText(<<"5">>, <<INT(5)>>) }

\* The lists find_majority is called with: labels of the shape of the task.
SampleResponses == {<<"a">>, <<"a", "b">>}

SampleDictResponses == {<<[price_up |-> 1]>>}

InitGetQueryParams ==
    /\ op = "get_query_params"
    /\ pc = "call"
    /\ outcome = "none"
    /\ VoteIdle /\ GoldIdle /\ SentIdle /\ OllamaIdle /\ SummaryIdle /\ SessionIdle
    /\ datasetName \in DatasetNames
    /\ textArg = NoneText
    /\ branch = "none"
    /\ ret = NoRet

CallGetQueryParams ==
    /\ op = "get_query_params"
    /\ pc = "call"
    /\ pc' = "done"
    /\ LET r == get_query_params(datasetName)
       IN  /\ outcome' = r.outcome
           /\ ret' = IF r.outcome = "return" THEN Ret("params", 0, PyNone, <<>>, r.ret) ELSE NoRet
    /\ branch' = branch
    /\ UNCHANGED <<op, sessionVars, summaryVars, datasetName, textArg, voteVars, goldVars, sentVars, ollamaVars>>

InitFindMajority ==
    /\ op = "find_majority"
    /\ pc = "call"
    /\ outcome = "none"
    /\ GoldIdle /\ SentIdle /\ OllamaIdle /\ SummaryIdle /\ SessionIdle
    /\ responses \in SampleResponses
    /\ voteRet = "none"
    /\ dictResponses \in SampleDictResponses
    /\ dictRet = EmptyDict
    /\ datasetName \in DatasetNames
    /\ textArg = NoneText
    /\ branch = "none"
    /\ ret = NoRet

\* The list passed is responses for the branches that vote on strings and
\* dictResponses for the branch that votes on mappings.
CallFindMajority ==
    /\ op = "find_majority"
    /\ pc = "call"
    /\ pc' = "done"
    /\ outcome' = "return"
    /\ branch' = find_majority_branch(datasetName)
    /\ CASE find_majority_branch(datasetName) \in {"sentiment", "summary"} ->
              /\ voteRet' \in find_majority(responses, datasetName)
              /\ ret' = Ret("str", 0, PyNone, <<>>, "")
              /\ UNCHANGED dictRet
         [] find_majority_branch(datasetName) = "gold" ->
              /\ dictRet' \in find_majority(dictResponses, datasetName)
              /\ ret' = Ret("dict", 0, PyNone, <<>>, "")
              /\ UNCHANGED voteRet
         [] OTHER ->
              /\ ret' = Ret("NoneType", 0, PyNone, <<>>, "")
              /\ UNCHANGED <<voteRet, dictRet>>
    /\ UNCHANGED <<op, sessionVars, summaryVars, datasetName, textArg, responses, dictResponses, goldVars, sentVars, ollamaVars>>

InitCleanLlmOutput ==
    /\ op = "clean_llm_output"
    /\ pc = "call"
    /\ outcome = "none"
    /\ VoteIdle /\ GoldIdle /\ SentIdle /\ OllamaIdle /\ SummaryIdle /\ SessionIdle
    /\ datasetName \in DatasetNames
    /\ textArg \in SampleTexts
    /\ branch = "none"
    /\ ret = NoRet

CallCleanLlmOutput ==
    /\ op = "clean_llm_output"
    /\ pc = "call"
    /\ pc' = "done"
    /\ branch' = clean_llm_output_branch(datasetName)
    /\ \E r \in clean_llm_output(datasetName, textArg) :
           outcome' = r.outcome /\ ret' = r.ret
    /\ UNCHANGED <<op, sessionVars, summaryVars, datasetName, textArg, voteVars, goldVars, sentVars, ollamaVars>>

InitDispatch == InitGetQueryParams \/ InitFindMajority \/ InitCleanLlmOutput

NextDispatch == CallGetQueryParams \/ CallFindMajority \/ CallCleanLlmOutput

SpecDispatch == InitDispatch /\ [][NextDispatch]_vars

(***************************************************************************)
(* Calls of clean_llm_output_summary: on a text, and then on the text the  *)
(* first call returned.                                                    *)
(***************************************************************************)
\* Texts: up to n pieces, among them the pieces of the listed phrases "$0.00"
\* and "$$", a backtick, the markers of a header, a bullet and an
\* enumeration, a headline word and the phrase "(Note:".
SummaryFragments ==
    { <<"$", "0">>, <<".", "0", "0">>, <<"$", "0", ".", "0", "0">>, <<"$">>,
      <<Backtick>>, <<"#", " ">>, <<"-", " ">>, <<"1", ".", " ">>,
      <<"x">>, <<"\n">>, <<" ">>, <<":">>,
      <<"s", "u", "m", "m", "a", "r", "y">>,
      <<"(", "N", "o", "t", "e", ":">>,
      <<"5", " ", "b", "u", "l", "l", "e", "t", " ", "p", "o", "i", "n", "t", "s">> }

SummaryTexts(n) == Concats(SummaryFragments, n)

InitSummary ==
    /\ op = "clean_llm_output_summary"
    /\ pc = "call"
    /\ outcome = "none"
    /\ VoteIdle /\ GoldIdle /\ SentIdle /\ DispatchIdle /\ OllamaIdle /\ SessionIdle
    /\ summaryArg \in SummaryTexts(MaxSummaryPieces)
    /\ summaryRet = <<>>

CallCleanSummary ==
    /\ op = "clean_llm_output_summary"
    /\ pc = "call"
    /\ pc' = "once"
    /\ outcome' = "return"
    /\ summaryRet' = cleaned_text(summaryArg)
    /\ UNCHANGED <<op, sessionVars, summaryArg, voteVars, goldVars, sentVars, dispatchVars, ollamaVars>>

\* The text returned goes through the function once more.
CallCleanSummaryAgain ==
    /\ op = "clean_llm_output_summary"
    /\ pc = "once"
    /\ pc' = "twice"
    /\ summaryArg' = summaryRet
    /\ summaryRet' = cleaned_text(summaryRet)
    /\ UNCHANGED <<op, sessionVars, outcome, voteVars, goldVars, sentVars, dispatchVars, ollamaVars>>

NextSummary == CallCleanSummary \/ CallCleanSummaryAgain

SpecSummary == InitSummary /\ [][NextSummary]_vars

(***************************************************************************)
(* query_ollama_sc and query_ollama_model (ollama_utils.py:27-84), one     *)
(* step per call that leaves the function: get_query_params, chat,         *)
(* time.sleep and clean_llm_output.  pc is the call the run is about to    *)
(* make.                                                                   *)
(***************************************************************************)
\* custom_max_retries of the parameter records: they are defined in
\* src/config/query_config.py, for which the docstring of
\* query_ollama_model gives "Maximum number of retries on failure".
RetryCounts == 1..MaxRetries

\* response.message.content of a chat that succeeded: a str.
ChatContents == SampleTexts \ {NoneText}

OllamaNames == Concats(NameParts, 2)

InitOllama ==
    /\ op = "query_ollama_sc"
    /\ pc = "get_query_params"
    /\ outcome = "none"
    /\ VoteIdle /\ GoldIdle /\ SentIdle /\ SummaryIdle /\ SessionIdle
    /\ datasetName \in OllamaNames
    /\ textArg = NoneText
    /\ branch = "none"
    /\ ret = NoRet
    /\ maxRetries \in RetryCounts
    /\ attempt = 0
    /\ chats = 0
    /\ sleeps = 0
    /\ chatLog = <<>>
    /\ response = NoneText

\* ollama_utils.py:28: an error of get_query_params leaves query_ollama_sc;
\* otherwise query_ollama_model starts its loop (line 71).
ScGetQueryParams ==
    /\ op = "query_ollama_sc"
    /\ pc = "get_query_params"
    /\ LET r == get_query_params(datasetName)
       IN  IF r.outcome = "return"
           THEN /\ pc' = IF maxRetries > 0 THEN "chat" ELSE "clean_llm_output"
                /\ UNCHANGED outcome
           ELSE /\ pc' = "done"
                /\ outcome' = r.outcome
    /\ UNCHANGED <<op, sessionVars, summaryVars, voteVars, goldVars, sentVars, dispatchVars, ollamaVars>>

\* How a call of chat ended: with the content of the message, or with an
\* exception.
Returned(content) == [raised |-> FALSE, content |-> content]

Raised == [raised |-> TRUE, content |-> NoneText]

\* ollama_utils.py:73-78: chat returns and the loop ends with its content.
ChatReturns ==
    /\ op = "query_ollama_sc"
    /\ pc = "chat"
    /\ chats' = chats + 1
    /\ \E content \in ChatContents :
           /\ response' = content
           /\ chatLog' = Append(chatLog, Returned(content))
    /\ pc' = "clean_llm_output"
    /\ UNCHANGED <<op, sessionVars, summaryVars, outcome, voteVars, goldVars, sentVars, dispatchVars, maxRetries, attempt, sleeps>>

\* Mutant: the function waits after the last attempt as after the others.
ChatRaises_always_sleeps ==
    /\ op = "query_ollama_sc"
    /\ pc = "chat"
    /\ chats' = chats + 1
    /\ chatLog' = Append(chatLog, Raised)
    /\ pc' = "sleep"
    /\ UNCHANGED <<op, sessionVars, summaryVars, outcome, voteVars, goldVars, sentVars, dispatchVars, maxRetries, attempt, sleeps, response>>

\* ollama_utils.py:79-83: chat raises; the last attempt returns None, any
\* other goes on to time.sleep.
ChatRaises ==
    /\ op = "query_ollama_sc"
    /\ pc = "chat"
    /\ chats' = chats + 1
    /\ chatLog' = Append(chatLog, Raised)
    /\ IF attempt = maxRetries - 1
       THEN /\ response' = NoneText
            /\ pc' = "clean_llm_output"
       ELSE /\ pc' = "sleep"
            /\ UNCHANGED response
    /\ UNCHANGED <<op, sessionVars, summaryVars, outcome, voteVars, goldVars, sentVars, dispatchVars, maxRetries, attempt, sleeps>>

\* ollama_utils.py:84 and 71: time.sleep(retry_delay), then the next value
\* of range(max_retries); when there is none the loop and the function end,
\* and the function returns None.
Sleep ==
    /\ op = "query_ollama_sc"
    /\ pc = "sleep"
    /\ sleeps' = sleeps + 1
    /\ attempt' = attempt + 1
    /\ IF attempt + 1 < maxRetries
       THEN /\ pc' = "chat"
            /\ UNCHANGED response
       ELSE /\ pc' = "clean_llm_output"
            /\ response' = NoneText
    /\ UNCHANGED <<op, sessionVars, summaryVars, outcome, voteVars, goldVars, sentVars, dispatchVars, maxRetries, chats, chatLog>>

\* ollama_utils.py:31-37: the response goes to clean_llm_output as it is.
ScCleanLlmOutput ==
    /\ op = "query_ollama_sc"
    /\ pc = "clean_llm_output"
    /\ pc' = "done"
    /\ textArg' = response
    /\ branch' = clean_llm_output_branch(datasetName)
    /\ \E r \in clean_llm_output(datasetName, response) :
           outcome' = r.outcome /\ ret' = r.ret
    /\ UNCHANGED <<op, sessionVars, summaryVars, datasetName, voteVars, goldVars, sentVars, ollamaVars>>

NextOllama == ScGetQueryParams \/ ChatReturns \/ ChatRaises \/ Sleep \/ ScCleanLlmOutput

SpecOllama == InitOllama /\ [][NextOllama]_vars

\* query_ollama_model is sequential code: a step of it that can be taken
\* is taken (get_query_params returns or raises, chat returns or raises,
\* time.sleep returns).
SpecOllamaFair ==
    /\ SpecOllama
    /\ WF_vars(ScGetQueryParams)
    /\ WF_vars(ChatReturns \/ ChatRaises)
    /\ WF_vars(Sleep)

(***************************************************************************)
(* A session: calls of HF_Manager.predict, HF_Manager.query_hf_sc,         *)
(* query_ollama_sc and get_query_params, one after the other, in one       *)
(* process.  The parameter records are the module-level dicts that         *)
(* query_utils.py imports from src/config/query_config.py;                 *)
(* get_query_params returns the dict itself, not a copy.                   *)
(***************************************************************************)
RecordNames == {"query_params_sentiment", "query_params_gold", "query_params_summary"}

\* The value query_config.py gives a field that the code modelled here
\* passes on without reading it.
ConfigValue(field) == PyVal("configured", 0, field, <<>>, <<>>)

SamplingFields == <<"do_sample", "temperature", "top_p", "top_k", "max_new_tokens", "seed">>

\* A parameter record: the sampling fields, the two retry controls and,
\* when with_context is true, max_context_length.
ParamRecord(retries, with_context) ==
    PyDict(SamplingFields \o <<"custom_max_retries", "custom_retry_delay">>
               \o (IF with_context THEN <<"max_context_length">> ELSE <<>>),
           [i \in 1..Len(SamplingFields) |-> ConfigValue(SamplingFields[i])]
               \o <<PyInt(retries), ConfigValue("custom_retry_delay")>>
               \o (IF with_context THEN <<ConfigValue("max_context_length")>> ELSE <<>>))

\* The records of one configuration: one number of retries, and each
\* record with or without max_context_length.
ParamRecords(retries) == {ParamRecord(retries, c) : c \in BOOLEAN}

\* d.pop(key, None)
DictPop(d, key) ==
    LET kept == SelectSeq([i \in DOMAIN d.keys |-> i], LAMBDA i : d.keys[i] # key)
    IN  PyDict([j \in DOMAIN kept |-> d.keys[kept[j]]], [j \in DOMAIN kept |-> d.items[kept[j]]])

\* d.get(key)
DictGetOrNone(d, key) == IF DictHas(d, key) THEN DictGet(d, key) ELSE PyNone

\* hf_utils.py:25-30: the dict predict got, after its three pops.
predict_pops(d) ==
    DictPop(DictPop(DictPop(d, "custom_max_retries"), "custom_retry_delay"), "max_context_length")

\* The dataset names of a session: one for each task, one that names two
\* tasks and one that names none.
SessionNames == {KwSentiment, KwGold, KwSummary, KwGold \o KwSummary, <<"t", "e", "s", "t">>}

\* What HF_Manager.query_model returns: tokenizer.decode gives a str.
DecodedTexts == SampleTexts \ {NoneText}

InitSession ==
    /\ op = "session"
    /\ pc = "ready"
    /\ outcome = "none"
    /\ VoteIdle /\ GoldIdle /\ SentIdle /\ DispatchIdle /\ OllamaIdle /\ SummaryIdle
    /\ \E retries \in RetryCounts : query_config \in [RecordNames -> ParamRecords(retries)]
    /\ params = PyNone
    /\ calls = 0
    /\ lastCall = "none"

\* hf_utils.py:22-70: the pops act on the dict get_query_params returned,
\* which is the record of the module; the pipeline then gets what is left.
\* predict has no return statement.
Predict ==
    /\ op = "session"
    /\ calls < MaxCalls
    /\ calls' = calls + 1
    /\ lastCall' = "predict"
    /\ \E name \in SessionNames :
           LET r == get_query_params(name)
           IN  /\ datasetName' = name
               /\ outcome' = r.outcome
               /\ IF r.outcome = "return"
                  THEN /\ query_config' = [query_config EXCEPT ![r.ret] = predict_pops(@)]
                       /\ params' = predict_pops(query_config[r.ret])
                       /\ ret' = Ret("NoneType", 0, PyNone, <<>>, "")
                  ELSE /\ UNCHANGED query_config
                       /\ params' = PyNone
                       /\ ret' = NoRet
    /\ UNCHANGED <<op, pc, textArg, branch, voteVars, goldVars, sentVars, ollamaVars, summaryVars>>

\* query_utils.py:8-16, called on its own: the record is read.
SessionGetQueryParams ==
    /\ op = "session"
    /\ calls < MaxCalls
    /\ calls' = calls + 1
    /\ lastCall' = "get_query_params"
    /\ \E name \in SessionNames :
           LET r == get_query_params(name)
           IN  /\ datasetName' = name
               /\ outcome' = r.outcome
               /\ IF r.outcome = "return"
                  THEN /\ params' = query_config[r.ret]
                       /\ ret' = Ret("params", 0, PyNone, <<>>, r.ret)
                  ELSE /\ params' = PyNone
                       /\ ret' = NoRet
    /\ UNCHANGED <<op, pc, textArg, branch, query_config, voteVars, goldVars, sentVars, ollamaVars, summaryVars>>

\* hf_utils.py:73-83: query_model reads the sampling fields with
\* params.get and returns the decoded text, which clean_llm_output cleans.
QueryHfSc ==
    /\ op = "session"
    /\ calls < MaxCalls
    /\ calls' = calls + 1
    /\ lastCall' = "query_hf_sc"
    /\ \E name \in SessionNames :
           LET r == get_query_params(name)
           IN  /\ datasetName' = name
               /\ IF r.outcome = "return"
                  THEN /\ params' = query_config[r.ret]
                       /\ \E text \in DecodedTexts : \E c \in clean_llm_output(name, text) :
                              outcome' = c.outcome /\ ret' = c.ret
                  ELSE /\ params' = PyNone
                       /\ outcome' = r.outcome
                       /\ ret' = NoRet
    /\ UNCHANGED <<op, pc, textArg, branch, query_config, voteVars, goldVars, sentVars, ollamaVars, summaryVars>>

\* ollama_utils.py:27-37 and 65-84: max_retries is
\* params.get("custom_max_retries"), and range(None) raises TypeError;
\* with an int the loop runs as in SpecOllama and returns a content or
\* None, which clean_llm_output cleans.
QueryOllamaSc ==
    /\ op = "session"
    /\ calls < MaxCalls
    /\ calls' = calls + 1
    /\ lastCall' = "query_ollama_sc"
    /\ \E name \in SessionNames :
           LET r == get_query_params(name)
           IN  /\ datasetName' = name
               /\ IF r.outcome = "return"
                  THEN /\ params' = query_config[r.ret]
                       /\ IF DictGetOrNone(query_config[r.ret], "custom_max_retries").t = "int"
                          THEN \E text \in SampleTexts : \E c \in clean_llm_output(name, text) :
                                   outcome' = c.outcome /\ ret' = c.ret
                          ELSE /\ outcome' = "TypeError"
                               /\ ret' = NoRet
                  ELSE /\ params' = PyNone
                       /\ outcome' = r.outcome
                       /\ ret' = NoRet
    /\ UNCHANGED <<op, pc, textArg, branch, query_config, voteVars, goldVars, sentVars, ollamaVars, summaryVars>>

NextSession == Predict \/ SessionGetQueryParams \/ QueryHfSc \/ QueryOllamaSc

SpecSession == InitSession /\ [][NextSession]_vars

(***************************************************************************)
(* Voting on a list of strings.                                            *)
(***************************************************************************)
HasStrictMajority(s) == \E x \in Range(s) : 2 * Count(x, s) > Len(s)

Permuted(s, p) == [i \in DOMAIN s |-> s[p[i]]]

VoteStrDone == op = "find_majority_str" /\ pc = "done"

\* C1: when some item fills more than half of a non-empty list,
\* find_majority_str returns that item, the call has no other possible
\* result (no random choice), and the same holds of every permutation of
\* the list.
C1_StrictMajorityReturned ==
    VoteStrDone =>
        \A x \in Range(responses) :
            2 * Count(x, responses) > Len(responses) =>
                /\ outcome = "return"
                /\ voteRet = x
                /\ \A p \in Permutations(DOMAIN responses) :
                       find_majority_str(Permuted(responses, p)) = {x}

\* C1 witness: the majority item is neither the first nor the last of the list.
C1_Witness ==
    /\ VoteStrDone
    /\ responses = <<"b", "a", "a", "a", "c">>
    /\ voteRet = "a"

\* C2: without a strict majority (ties included) the values a call on a
\* non-empty list can return are exactly the items of the list: before the
\* call every item of the list is a possible result, and after it the
\* result is an item of the list.
C2_NoMajorityAnyItem ==
    (op = "find_majority_str" /\ responses # <<>> /\ ~HasStrictMajority(responses)) =>
        /\ pc = "call" =>
               \A x \in Range(responses) :
                   ENABLED (CallFindMajorityStr /\ voteRet' = x)
        /\ pc = "done" => outcome = "return" /\ voteRet \in Range(responses)

\* C2 witness: a and b tie as leaders and the minority item c is returned.
C2_Witness ==
    /\ VoteStrDone
    /\ responses = <<"a", "a", "b", "b", "c">>
    /\ voteRet = "c"

(***************************************************************************)
(* Voting on a list of mappings.                                           *)
(***************************************************************************)
\* The responses that hold the key, and those that give it the value v.
Holding(key) == {i \in DOMAIN dictResponses : key \in DOMAIN dictResponses[i]}

Giving(key, v) == {i \in Holding(key) : dictResponses[i][key] = v}

\* What the claim allows for one key, read from that key's values alone:
\* the value of a strict majority, or else any value observed for the key.
AllowedFor(key) ==
    LET seen == {dictResponses[i][key] : i \in Holding(key)}
        maj  == {v \in seen : 2 * Cardinality(Giving(key, v)) > Cardinality(Holding(key))}
    IN  IF maj # {} THEN maj ELSE seen

\* C9: find_majority_dict votes each key on its own.  The consensus of a
\* non-empty list has exactly the keys that occur in the list; the value of
\* each key is the one a strict majority of that key's values holds, or else
\* one of the values observed for that key; and every combination of values
\* allowed key by key is among the mappings the call can return, so that the
\* value of one key does not depend on the values of another.
C9_PerKeyVote ==
    (op = "find_majority_dict" /\ dictResponses # <<>>) =>
        /\ pc = "done" =>
               /\ outcome = "return"
               /\ DOMAIN dictRet = KeysOf(dictResponses)
               /\ \A k \in DOMAIN dictRet : dictRet[k] \in AllowedFor(k)
        /\ pc = "call" =>
               \A f \in [KeysOf(dictResponses) -> VoteValues] :
                   (\A k \in DOMAIN f : f[k] \in AllowedFor(k)) =>
                       f \in find_majority_dict(dictResponses)

\* C9 witness: price_up is voted from 1, 1, 0 and price_down from 0, 1, 0.
C9_Witness ==
    /\ op = "find_majority_dict"
    /\ pc = "done"
    /\ dictResponses = << [price_up |-> 1, price_down |-> 0],
                          [price_up |-> 1, price_down |-> 1],
                          [price_up |-> 0, price_down |-> 0] >>
    /\ dictRet = [price_up |-> 1, price_down |-> 0]

(***************************************************************************)
(* Label extraction.                                                       *)
(***************************************************************************)
GoldDone == op = "clean_llm_output_gold" /\ pc = "done"

\* The value is 0, 1 or -1.
IsLabelValue(v) == v.t \in {"int", "bool"} /\ v.n \in {0, 1, -1}

\* The value is exactly 0 or 1 (True and False are the ints 1 and 0).
IsFlag(v) == v.t \in {"int", "bool"} /\ v.n \in {0, 1}

\* C3: for every argument (a mapping, any string, or another value such as
\* None) clean_llm_output_gold returns a mapping with exactly the 9 expected
\* keys, each at 0, 1 or -1.
C3_AlwaysNineKeys ==
    GoldDone =>
        /\ outcome = "return"
        /\ goldRet.t = "dict"
        /\ Len(goldRet.keys) = Len(expected_keys)
        /\ Range(goldRet.keys) = Range(expected_keys)
        /\ \A i \in DOMAIN goldRet.items : IsLabelValue(goldRet.items[i])

\* C4: label extraction never raises: for every string and for None,
\* clean_llm_output_sentiment returns an integer and clean_llm_output_gold
\* returns a mapping.
C4_ExtractionNeverRaises ==
    /\ (GoldDone /\ (goldArg.kind = "str" \/ goldArg = GoldArg("other", PyNone, <<>>)))
           => (outcome = "return" /\ goldRet.t = "dict")
    /\ (op = "clean_llm_output_sentiment" /\ pc = "done")
           => (outcome = "return" /\ sentRet \in Int)

\* C10: for a mapping, each of the 9 expected keys of the result has the
\* argument's value for the key when the key is present with a value of
\* exactly 0 or 1, and -1 otherwise; the result has no other key; and the
\* call leaves the mapping as it was.
C10_MappingValidated ==
    [][(CallCleanGold /\ goldArg.kind = "dict") =>
          /\ outcome' = "return"
          /\ goldRet'.t = "dict"
          /\ goldRet'.keys = expected_keys
          /\ \A i \in DOMAIN expected_keys :
                goldRet'.items[i] =
                    IF /\ \E j \in DOMAIN goldArg.val.keys : goldArg.val.keys[j] = expected_keys[i]
                       /\ IsFlag(DictGet(goldArg.val, expected_keys[i]))
                    THEN DictGet(goldArg.val, expected_keys[i])
                    ELSE PyInt(-1)
          /\ goldArg' = goldArg]_vars

\* C10 witness: one expected key with a flag, one with another int.
C10_Witness ==
    /\ GoldDone
    /\ goldArg = GoldArg("dict", PyDict(<<"price_up", "price_down">>, <<PyInt(1), PyInt(2)>>), <<>>)
    /\ goldRet = DictSet(initial_result, "price_up", PyInt(1))

\* The occurrences of a sentiment word in the text, trimmed and lowercased.
Normalised == Lower(Strip(sentArg.chars))

Occurrences(w) ==
    Cardinality({i \in 1..(Len(Normalised) - Len(Spelling[w]) + 1) :
                    SubSeq(Normalised, i, i + Len(Spelling[w]) - 1) = Spelling[w]})

AllOccurrences == Occurrences("negative") + Occurrences("neutral") + Occurrences("positive")

\* C8: clean_llm_output_sentiment returns -1 for None and for the empty
\* string; the integer of the word for a text that is, trimmed and
\* lowercased, one of the three words; and for any other text -1 exactly
\* when no word occurs in it, and otherwise the integer of a word that does
\* occur: the one with a strict majority of the occurrences when there is one.
C8_SentimentLabel ==
    (op = "clean_llm_output_sentiment" /\ pc = "done") =>
        /\ outcome = "return"
        /\ sentRet \in {-1, 0, 1, 2}
        /\ IF sentArg.none \/ sentArg.chars = <<>> THEN sentRet = -1
           ELSE IF \E w \in Range(sentiment_words) : Normalised = Spelling[w]
                THEN \E w \in Range(sentiment_words) :
                         Normalised = Spelling[w] /\ sentRet = mapping[w]
           ELSE IF AllOccurrences = 0 THEN sentRet = -1
           ELSE /\ \E w \in Range(sentiment_words) :
                       Occurrences(w) > 0 /\ sentRet = mapping[w]
                /\ \A w \in Range(sentiment_words) :
                       2 * Occurrences(w) > AllOccurrences => sentRet = mapping[w]

\* C8 witness: "negative not positive", a tie, gives 2.
C8_Witness ==
    /\ op = "clean_llm_output_sentiment"
    /\ pc = "done"
    /\ sentArg.chars = Spelling["negative"] \o <<"n", "o", "t">> \o Spelling["positive"]
    /\ sentRet = 2

(***************************************************************************)
(* Claims about the dispatchers and about the cleaning of a missing        *)
(* response.                                                               *)
(***************************************************************************)
HasKeyword(name) ==
    Contains(KwSentiment, name) \/ Contains(KwGold, name) \/ Contains(KwSummary, name)

\* C5: clean_llm_output returns, and does not raise, for a text that is
\* None or "" under each of the three tasks; so does query_ollama_sc when
\* every attempt failed and the response is None.
C5_MissingResponseIsCleaned ==
    ( /\ op = "query_ollama_sc"
      /\ pc = "done"
      /\ HasKeyword(datasetName)
      /\ (textArg.none \/ textArg.chars = <<>>) )
        => outcome = "return"

\* C6: a dataset name with none of "sentiment", "gold" and "summary" is an
\* error of each dispatcher: no call with such a name returns.
C6_UnknownDatasetIsError ==
    ( /\ op \in {"get_query_params", "find_majority", "clean_llm_output"}
      /\ pc = "done"
      /\ ~HasKeyword(datasetName) )
        => outcome = "ValueError"

\* The tasks in the order of priority, and the keyword of each.
TaskOrder == <<"sentiment", "gold", "summary">>

Keyword(task) ==
    CASE task = "sentiment" -> KwSentiment
      [] task = "gold"      -> KwGold
      [] task = "summary"   -> KwSummary

\* The first task in the order whose keyword is in the name.
Selected(name, i) ==
    /\ Contains(Keyword(TaskOrder[i]), name)
    /\ \A j \in 1..(i - 1) : ~Contains(Keyword(TaskOrder[j]), name)

\* C7: the three dispatchers select the same task for the same name: the
\* first of sentiment, gold, summary whose keyword is a case-sensitive
\* substring of the name, wherever in the name the keywords stand.
C7_SamePriorityOrder ==
    \A i \in DOMAIN TaskOrder :
        (pc = "done" /\ Selected(datasetName, i)) =>
            /\ op = "get_query_params" =>
                   /\ outcome = "return"
                   /\ ret.s = CASE i = 1 -> "query_params_sentiment"
                                [] i = 2 -> "query_params_gold"
                                [] i = 3 -> "query_params_summary"
            /\ op = "find_majority" =>
                   /\ branch = TaskOrder[i]
                   /\ ret.t = IF i = 2 THEN "dict" ELSE "str"
            /\ op = "clean_llm_output" => branch = TaskOrder[i]

\* clean_llm_output was called with a name in which "gold" stands before
\* "sentiment", and took the sentiment branch.
C7_Witness ==
    /\ op = "clean_llm_output"
    /\ pc = "done"
    /\ datasetName = KwGold \o <<"_">> \o KwSentiment
    /\ branch = "sentiment"


(***************************************************************************)
(* Claims about the parse stages of clean_llm_output_gold.                 *)
(***************************************************************************)
\* The bracket-delimited texts of the argument in their order, and those
\* that parse as a mapping with at least one expected key.
StageMatches == json_matches(StripFences(goldArg.toks, <<>>), 1)

Accepted ==
    {i \in DOMAIN StageMatches :
        LET r == json_loads(StageMatches[i])
        IN  /\ r.ok
            /\ r.val.t = "dict"
            /\ \E key \in Range(expected_keys) : DictHas(r.val, key)}

\* C12: for a string the stages run in the order bracket-delimited texts,
\* whole string, whole string with the quotes replaced, key:integer pairs.
\* The first bracket-delimited text that parses as a mapping with an
\* expected key gives the label that this mapping gives by itself, whatever
\* follows it; a later stage sets the mapping only when no bracket-delimited
\* text was accepted and every stage between raised a parse error.
C12_StagesInOrder ==
    (GoldDone /\ goldArg.kind = "str") =>
        /\ Accepted # {} =>
              /\ goldStage = "bracket"
              /\ outcome = "return"
              /\ goldRet = clean_llm_output_gold(
                     GoldArg("dict", json_loads(StageMatches[Min(Accepted)]).val, <<>>)).ret
        /\ goldStage \in {"bracket", "direct", "quoted", "pairs"}
        /\ goldStage = "bracket" => Accepted # {}
        /\ goldStage \in {"quoted", "pairs"} =>
              ~json_loads(StripFences(goldArg.toks, <<>>)).ok
        /\ goldStage = "pairs" =>
              ~json_loads(ReplaceQuotes(StripFences(goldArg.toks, <<>>))).ok

\* C12 witness: two accepted mappings with different keys, texts between.
C12_Witness ==
    /\ GoldDone
    /\ goldArg.kind = "str"
    /\ goldArg.toks = <<LB, DQ("price_up"), COLON, INT(1), RB>> \o <<WORD("garbage")>>
                          \o <<LB, DQ("price_down"), COLON, INT(1), RB>>
    /\ goldStage = "bracket"
    /\ goldRet = DictSet(initial_result, "price_up", PyInt(1))

(***************************************************************************)
(* Claims about the retry loop of query_ollama_model.                      *)
(***************************************************************************)
\* query_ollama_model has returned to query_ollama_sc.
ModelReturned ==
    op = "query_ollama_sc" /\ pc \in {"clean_llm_output", "done"} /\ chatLog # <<>>

\* At most N calls of chat, none after one that returned; a wait after each
\* failed call that is followed by another call, and no other wait; when the
\* function has returned, the content of the call that returned, or None
\* when all N calls raised.
RetryLoopSafe ==
    op = "query_ollama_sc" =>
        /\ Len(chatLog) = chats
        /\ chats <= maxRetries
        /\ \A i \in 1..(Len(chatLog) - 1) : chatLog[i].raised
        /\ pc = "chat" => sleeps = chats
        /\ pc = "sleep" => sleeps = chats - 1
        /\ ModelReturned =>
              /\ sleeps = chats - 1
              /\ LET last == chatLog[Len(chatLog)]
                 IN  IF last.raised
                     THEN response = NoneText /\ chats = maxRetries
                     ELSE response = last.content /\ ~response.none

\* C13: for custom_max_retries = N >= 1 and any pattern of failures of chat,
\* query_ollama_model ends after at most N calls of chat, returns the
\* content of the first call that succeeds and calls no more, returns None
\* exactly when all N calls fail, and waits only between a failed call and
\* the next one.
C13_RetryLoop == []RetryLoopSafe /\ <>(pc \in {"clean_llm_output", "done"})

\* C13 witness: three attempts allowed, the first two raise and are each
\* followed by a wait, the third returns.
C13_Witness ==
    /\ ModelReturned
    /\ maxRetries = 3
    /\ Len(chatLog) = 3
    /\ chatLog[1].raised /\ chatLog[2].raised /\ ~chatLog[3].raised
    /\ sleeps = 2
    /\ response = chatLog[3].content

(***************************************************************************)
(* Claims about the cleaning of summaries.                                 *)
(***************************************************************************)
\* C11: summary cleaning is idempotent: the function returns the text that
\* one call returned as it is, so that no listed phrase and no other rule
\* matches the result of one call.
C11_SummaryIdempotent ==
    (op = "clean_llm_output_summary" /\ pc = "twice") => summaryRet = summaryArg

\* C14: the system keeps no state between calls: no call of predict,
\* query_hf_sc, query_ollama_sc or get_query_params changes the record
\* that get_query_params returns for any dataset name, so the record a
\* later query_ollama_model gets has the fields and values it had before.
C14_NoStateBetweenCalls == [][query_config' = query_config]_vars

\* C14, the consequence the claim names: a query_ollama_sc call for a
\* known dataset gets a record that still has its custom_max_retries.
C14_OllamaGetsRetries ==
    (op = "session" /\ lastCall = "query_ollama_sc" /\ params # PyNone)
        => DictHas(params, "custom_max_retries")

Init == InitVoteStr \/ InitVoteDict \/ InitGold \/ InitSentiment \/ InitDispatch \/ InitOllama \/ InitSummary
    \/ InitSession

Next ==
    \/ CallFindMajorityStr \/ CallFindMajorityDict \/ CallCleanGold \/ CallCleanSentiment
    \/ NextDispatch \/ NextOllama \/ NextSummary \/ NextSession

Spec == Init /\ [][Next]_vars

=============================================================================
